---------------------------- MODULE Spec2Model ----------------------------
(***************************************************************************)
(* Model of render_app.py: the extractive summarizer (split_sentences,     *)
(* tokenize_words, clean_summary, summarize_text) over texts that are      *)
(* sequences of characters, and the search quota bookkeeping of search_web *)
(* (usage, reset_usage_if_needed) under concurrent /answer requests.       *)
(*                                                                         *)
(* A Python str is a sequence of one-character strings.  Sentence scores   *)
(* are kept as exact rationals and compared exactly (see ScoreCmp).        *)
(***************************************************************************)
EXTENDS Integers, Sequences, FiniteSets

(* ------------------------------ bounds -------------------------------- *)

\* Largest number of fragments concatenated into an input text.
MaxFrags == 3

\* Largest max_sentences argument tried (the argument ranges over 1..MaxK).
MaxK == 2

\* Number of days that may elapse (quota resets that may become due).
MaxDays == 1

\* Number of worker threads serving /answer concurrently.
NumThreads == 2

(* --------------------------- program constants ------------------------ *)

GOOGLE_LIMIT == 100

SERP_LIMIT == 3

\* split_sentences keeps a fragment of at least this many words.
MinWords == 5

\* tokenize_words keeps a run of at least this many letters.
MinTokenLen == 2

\* summarize_text considers only this many leading sentences.
SentenceCap == 80

\* The max_sentences that get_answer passes.
DefaultMaxSentences == 5

STOPWORDS ==
  {
    <<"a">>, <<"a","b","o","u","t">>, <<"a","b","o","v","e">>, <<"a","f","t","e","r">>,
    <<"a","g","a","i","n">>, <<"a","g","a","i","n","s","t">>, <<"a","l","l">>, <<"a","m">>,
    <<"a","n">>, <<"a","n","d">>, <<"a","n","y">>, <<"a","r","e">>, <<"a","s">>, <<"a","t">>,
    <<"b","e">>, <<"b","e","c","a","u","s","e">>, <<"b","e","e","n">>,
    <<"b","e","f","o","r","e">>, <<"b","e","i","n","g">>, <<"b","e","l","o","w">>,
    <<"b","e","t","w","e","e","n">>, <<"b","o","t","h">>, <<"b","u","t">>, <<"b","y">>,
    <<"c","o","u","l","d">>, <<"d","i","d">>, <<"d","o">>, <<"d","o","e","s">>,
    <<"d","o","i","n","g">>, <<"d","o","w","n">>, <<"d","u","r","i","n","g">>,
    <<"e","a","c","h">>, <<"f","e","w">>, <<"f","o","r">>, <<"f","r","o","m">>,
    <<"f","u","r","t","h","e","r">>, <<"h","a","d">>, <<"h","a","s">>, <<"h","a","v","e">>,
    <<"h","a","v","i","n","g">>, <<"h","e">>, <<"h","e","r">>, <<"h","e","r","e">>,
    <<"h","e","r","s">>, <<"h","e","r","s","e","l","f">>, <<"h","i","m">>,
    <<"h","i","m","s","e","l","f">>, <<"h","i","s">>, <<"h","o","w">>, <<"i">>, <<"i","f">>,
    <<"i","n">>, <<"i","n","t","o">>, <<"i","s">>, <<"i","t">>, <<"i","t","s">>,
    <<"i","t","s","e","l","f">>, <<"j","u","s","t">>, <<"m","e">>, <<"m","o","r","e">>,
    <<"m","o","s","t">>, <<"m","y">>, <<"m","y","s","e","l","f">>, <<"n","o">>, <<"n","o","r">>,
    <<"n","o","t">>, <<"o","f">>, <<"o","f","f">>, <<"o","n">>, <<"o","n","c","e">>,
    <<"o","n","l","y">>, <<"o","r">>, <<"o","t","h","e","r">>, <<"o","u","g","h","t">>,
    <<"o","u","r">>, <<"o","u","r","s">>, <<"o","u","r","s","e","l","v","e","s">>,
    <<"o","u","t">>, <<"o","v","e","r">>, <<"o","w","n">>, <<"s","a","m","e">>, <<"s","h","e">>,
    <<"s","h","o","u","l","d">>, <<"s","o">>, <<"s","o","m","e">>, <<"s","u","c","h">>,
    <<"t","h","a","n">>, <<"t","h","a","t">>, <<"t","h","e">>, <<"t","h","e","i","r">>,
    <<"t","h","e","i","r","s">>, <<"t","h","e","m">>,
    <<"t","h","e","m","s","e","l","v","e","s">>, <<"t","h","e","n">>, <<"t","h","e","r","e">>,
    <<"t","h","e","s","e">>, <<"t","h","e","y">>, <<"t","h","i","s">>, <<"t","h","o","s","e">>,
    <<"t","h","r","o","u","g","h">>, <<"t","o">>, <<"t","o","o">>, <<"u","n","d","e","r">>,
    <<"u","n","t","i","l">>, <<"u","p">>, <<"v","e","r","y">>, <<"w","a","s">>, <<"w","e">>,
    <<"w","e","r","e">>, <<"w","h","a","t">>, <<"w","h","e","n">>, <<"w","h","e","r","e">>,
    <<"w","h","i","c","h">>, <<"w","h","i","l","e">>, <<"w","h","o">>, <<"w","h","o","m">>,
    <<"w","h","y">>, <<"w","i","t","h">>, <<"w","o","u","l","d">>, <<"y","o","u">>,
    <<"y","o","u","r">>, <<"y","o","u","r","s">>, <<"y","o","u","r","s","e","l","f">>,
    <<"y","o","u","r","s","e","l","v","e","s">>
  }

\* The alternatives of clean_summary's pattern, lower-cased (re.IGNORECASE).
BoilerplateMarkers ==
  {
    <<"s","t","a","f","f"," ","w","r","i","t","e","r">>,
    <<"e","d","i","t","o","r","i","a","l">>,
    <<"c","o","n","t","e","n","t"," ","l","e","a","d">>, <<"r","e","p","o","r","t","e","r">>,
    <<"j","o","u","r","n","a","l","i","s","t">>, <<"s","u","b","s","c","r","i","b","e">>,
    <<"s","i","g","n"," ","u","p">>
  }

(* ------------------------- character classes -------------------------- *)

\* Characters matched by \s, dropped by str.strip() and separating str.split().
Whitespace == {" ", "\t", "\n", "\r"}

\* The character class [\.\!\?] of the split pattern's lookbehind.
Terminal == {".", "!", "?"}

UpperCase ==
  <<"A","B","C","D","E","F","G","H","I","J","K","L","M",
    "N","O","P","Q","R","S","T","U","V","W","X","Y","Z">>

LowerCase ==
  <<"a","b","c","d","e","f","g","h","i","j","k","l","m",
    "n","o","p","q","r","s","t","u","v","w","x","y","z">>

Range(f) == {f[i] : i \in DOMAIN f}

\* The character class [a-zA-Z'] of the token pattern.
TokenChars == Range(UpperCase) \cup Range(LowerCase) \cup {"'"}

\* str.lower() on one character.
lower_char(c) ==
  IF c \in Range(UpperCase)
  THEN LowerCase[CHOOSE i \in DOMAIN UpperCase : UpperCase[i] = c]
  ELSE c

\* str.lower()
lower(s) == [i \in 1..Len(s) |-> lower_char(s[i])]

(* --------------------------- string helpers --------------------------- *)

\* sep.join(parts)
RECURSIVE join(_, _)
join(sep, parts) ==
  IF parts = <<>> THEN <<>>
  ELSE IF Len(parts) = 1 THEN parts[1]
  ELSE parts[1] \o sep \o join(sep, Tail(parts))

\* First index j >= i with s[j] outside set C, or Len(s)+1.
RECURSIVE RunEnd(_, _, _)
RunEnd(s, i, C) ==
  IF i > Len(s) \/ s[i] \notin C THEN i ELSE RunEnd(s, i + 1, C)

\* Last index j <= i with s[j] outside Whitespace, or 0.
RECURSIVE LastNonSpace(_, _)
LastNonSpace(s, i) ==
  IF i = 0 \/ s[i] \notin Whitespace THEN i ELSE LastNonSpace(s, i - 1)

\* str.strip()
strip(s) ==
  LET a == RunEnd(s, 1, Whitespace)
      b == LastNonSpace(s, Len(s))
  IN  IF a > b THEN <<>> ELSE SubSeq(s, a, b)

\* len(s.split()): the number of maximal runs of non-whitespace characters.
word_count(s) ==
  Cardinality({i \in 1..Len(s) :
                 /\ s[i] \notin Whitespace
                 /\ (i = 1 \/ s[i - 1] \in Whitespace)})

\* The indices of s that are in the set P, in ascending order.
positions(s, P) == SelectSeq([i \in 1..Len(s) |-> i], LAMBDA i : i \in P)

\* re.sub(r"\s+", " ", s): every maximal whitespace run becomes one space.
collapse_ws(s) ==
  LET kept == positions(s, {i \in DOMAIN s :
                 s[i] \notin Whitespace \/ i = 1 \/ s[i - 1] \notin Whitespace})
  IN  [n \in DOMAIN kept |-> IF s[kept[n]] \in Whitespace THEN " " ELSE s[kept[n]]]

\* re.search(pat, s) for a literal pattern: pat occurs in s.
contains(s, pat) ==
  \E i \in 1..(Len(s) - Len(pat) + 1) :
     \A j \in 1..Len(pat) : s[i + j - 1] = pat[j]

\* Mutant: the slice is one too long.
take_one_more(seq, n) == SubSeq(seq, 1, IF n + 1 < Len(seq) THEN n + 1 ELSE Len(seq))

\* seq[:n]
take(seq, n) == SubSeq(seq, 1, IF n < Len(seq) THEN n ELSE Len(seq))

(* ------------------------------ split_sentences ----------------------- *)

\* re.split(r'(?<=[\.\!\?])\s+', text).  A match begins at a whitespace
\* character directly preceded by a terminal mark and takes the whole
\* whitespace run; the parts are what lies before, between and after the
\* matches.
re_split(text) ==
  LET m == positions(text, {i \in DOMAIN text :
              text[i] \in Whitespace /\ i > 1 /\ text[i - 1] \in Terminal})
      first(n) == IF n = 1 THEN 1 ELSE RunEnd(text, m[n - 1], Whitespace)
      last(n) == IF n = Len(m) + 1 THEN Len(text) ELSE m[n] - 1
  IN  [n \in 1..(Len(m) + 1) |-> SubSeq(text, first(n), last(n))]

\* Mutant: the word threshold is off by one.
RECURSIVE keep_sentences_shorter(_)
keep_sentences_shorter(parts) ==
  IF parts = <<>> THEN <<>>
  ELSE LET s == strip(Head(parts))
       IN  IF word_count(s) >= MinWords - 1
           THEN <<s>> \o keep_sentences_shorter(Tail(parts))
           ELSE keep_sentences_shorter(Tail(parts))

\* [s.strip() for s in parts if len(s.strip().split()) >= 5]
RECURSIVE keep_sentences(_)
keep_sentences(parts) ==
  IF parts = <<>> THEN <<>>
  ELSE LET s == strip(Head(parts))
       IN  IF word_count(s) >= MinWords
           THEN <<s>> \o keep_sentences(Tail(parts))
           ELSE keep_sentences(Tail(parts))

split_sentences(text) == keep_sentences(re_split(text))

(* ------------------------------ tokenize_words ------------------------ *)

\* re.findall(r"[a-zA-Z']{2,}", s): the maximal runs of token characters
\* that are at least two characters long, from left to right.
findall_tokens(s) ==
  LET starts == positions(s, {i \in DOMAIN s :
                   /\ s[i] \in TokenChars
                   /\ (i = 1 \/ s[i - 1] \notin TokenChars)
                   /\ RunEnd(s, i, TokenChars) - i >= MinTokenLen})
  IN  [n \in DOMAIN starts |->
         SubSeq(s, starts[n], RunEnd(s, starts[n], TokenChars) - 1)]

tokenize_words(text) == findall_tokens(lower(text))

(* ------------------------------ clean_summary ------------------------- *)

\* The boilerplate test of clean_summary: re.search(..., s, re.IGNORECASE).
is_boilerplate(s) ==
  LET ls == lower(s) IN \E m \in BoilerplateMarkers : contains(ls, m)

\* Mutant: the loop never skips.
keep_boilerplate(sents) == sents

\* The loop of clean_summary: the sentences that are not boilerplate.
RECURSIVE drop_boilerplate(_)
drop_boilerplate(sents) ==
  IF sents = <<>> THEN <<>>
  ELSE IF is_boilerplate(Head(sents)) THEN drop_boilerplate(Tail(sents))
  ELSE <<Head(sents)>> \o drop_boilerplate(Tail(sents))

clean_summary(summary) ==
  join(<<" ">>, drop_boilerplate(split_sentences(summary)))

(* ------------------------------ scoring ------------------------------- *)

\* Counter(words)[w]; a word that is not a key counts 0 (freqs.get(t, 0.0)).
count(w, words) == Cardinality({i \in DOMAIN words : words[i] = w})

\* [w for w in words if w not in STOPWORDS]
non_stopwords(tokens) == SelectSeq(tokens, LAMBDA w : w \notin STOPWORDS)

\* max(freqs.values()), for a non-empty list of words.
max_freq(words) ==
  LET counts == {count(words[i], words) : i \in DOMAIN words}
  IN  CHOOSE m \in counts : \A c \in counts : c <= m

\* sum(freqs.get(t, 0.0) for t in tokens) times max_freq: the raw counts.
RECURSIVE count_sum(_, _)
count_sum(tokens, words) ==
  IF tokens = <<>> THEN 0
  ELSE count(Head(tokens), words) + count_sum(Tail(tokens), words)

\* The score (num / mf) / len ** 0.8 of a sentence, kept as its three parts.
score_of(tokens, words) ==
  [num |-> count_sum(tokens, words), mf |-> max_freq(words), len |-> Len(tokens)]

\* Natural numbers of any size as little-endian sequences of digits in base
\* 1000 (zero is the empty sequence): the product of a number and k < 1000.
RECURSIVE mul_digits(_, _, _)
mul_digits(b, k, carry) ==
  IF b = <<>> THEN (IF carry = 0 THEN <<>> ELSE <<carry>>)
  ELSE LET v == Head(b) * k + carry
       IN  <<v % 1000>> \o mul_digits(Tail(b), k, v \div 1000)

big_mul(b, k) == IF k = 0 THEN <<>> ELSE mul_digits(b, k, 0)

\* b * k^e
RECURSIVE big_mul_pow(_, _, _)
big_mul_pow(b, k, e) ==
  IF e = 0 THEN b ELSE big_mul_pow(big_mul(b, k), k, e - 1)

\* -1, 0 or 1 as a < b, a = b or a > b.
RECURSIVE big_cmp_from(_, _, _)
big_cmp_from(a, b, i) ==
  IF i = 0 THEN 0
  ELSE IF a[i] < b[i] THEN -1
  ELSE IF a[i] > b[i] THEN 1
  ELSE big_cmp_from(a, b, i - 1)

big_cmp(a, b) ==
  IF Len(a) < Len(b) THEN -1
  ELSE IF Len(a) > Len(b) THEN 1
  ELSE big_cmp_from(a, b, Len(a))

\* Order of two scores of one call (equal mf): x < y, x = y or x > y as
\* (x.num/mf) / x.len^0.8 compares with (y.num/mf) / y.len^0.8, that is, as
\* x.num^5 * y.len^4 compares with y.num^5 * x.len^4.
ScoreCmp(x, y) ==
  big_cmp(big_mul_pow(big_mul_pow(<<1>>, x.num, 5), y.len, 4),
          big_mul_pow(big_mul_pow(<<1>>, y.num, 5), x.len, 4))

\* Mutant: a sentence without tokens is scored 0 instead of being skipped.
RECURSIVE score_sentences_noskip(_, _, _)
score_sentences_noskip(sentences, words, i) ==
  IF i > Len(sentences) THEN <<>>
  ELSE <<[idx |-> i - 1, score |-> score_of(tokenize_words(sentences[i]), words),
          s |-> sentences[i]]>>
       \o score_sentences_noskip(sentences, words, i + 1)

\* The loop building sent_scores: (idx, score, s) for each sentence with a
\* token, idx counting from 0 as enumerate does.
RECURSIVE score_sentences(_, _, _)
score_sentences(sentences, words, i) ==
  IF i > Len(sentences) THEN <<>>
  ELSE LET tokens == tokenize_words(sentences[i])
       IN  IF tokens = <<>> THEN score_sentences(sentences, words, i + 1)
           ELSE <<[idx |-> i - 1, score |-> score_of(tokens, words), s |-> sentences[i]]>>
                \o score_sentences(sentences, words, i + 1)

\* Mutant: reversing the ascending sort puts the later of two equal scores first.
sorted_ties_reversed(seq) ==
  LET before == [i \in DOMAIN seq |->
                   Cardinality({j \in DOMAIN seq :
                      LET c == ScoreCmp(seq[j].score, seq[i].score)
                      IN  c > 0 \/ (c = 0 /\ j > i)})]
  IN  [r \in 1..Len(seq) |-> seq[CHOOSE i \in DOMAIN seq : before[i] = r - 1]]

\* sorted(sent_scores, key=lambda x: x[1], reverse=True).  Python's sort is
\* stable, also with reverse=True: of two elements with equal keys the one
\* that came first stays first.
sorted_by_score_desc(seq) ==
  LET before == [i \in DOMAIN seq |->
                   Cardinality({j \in DOMAIN seq :
                      LET c == ScoreCmp(seq[j].score, seq[i].score)
                      IN  c > 0 \/ (c = 0 /\ j < i)})]
  IN  [r \in 1..Len(seq) |-> seq[CHOOSE i \in DOMAIN seq : before[i] = r - 1]]

\* Mutant: the selection is not put back in the order of the text.
sorted_by_idx_noop(seq) == seq

\* sorted(top, key=lambda x: x[0]); the idx are distinct.
sorted_by_idx(seq) ==
  LET before == [i \in DOMAIN seq |->
                   Cardinality({j \in DOMAIN seq : seq[j].idx < seq[i].idx})]
  IN  [r \in 1..Len(seq) |-> seq[CHOOSE i \in DOMAIN seq : before[i] = r - 1]]

\* Mutant: whitespace runs are deleted instead of replaced by a space.
tidy_delete_ws(summary) == SelectSeq(summary, LAMBDA c : c \notin Whitespace)

\* The final tidy: re.sub(r"\s+", " ", summary).strip()
tidy(summary) == strip(collapse_ws(summary))

\* Mutant: the fallback is missing.
no_fallback(summary, sentences, max_sentences) == summary

\* Mutant: the fallback forgets the [:max_sentences] slice.
fallback_unsliced(summary, sentences, max_sentences) ==
  IF summary = <<>> THEN join(<<" ">>, sentences) ELSE summary

\* "If cleaning removed everything, fallback to first K sentences".
fallback_if_empty(summary, sentences, max_sentences) ==
  IF summary = <<>> THEN join(<<" ">>, take(sentences, max_sentences))
  ELSE summary

(* ------------------------------ summarize_text ------------------------ *)

\* summarize_text(text, max_sentences): the value returned (ret) with the
\* locals of the call at the return: the return statement taken (path), the
\* capped sentences, the (idx, score) of the entries of sent_scores and the
\* idx of the entries of top.  No statement of the try block can raise on a
\* str and a positive int (max is taken of a non-empty Counter, and the
\* division is by len(tokens) ** 0.8 with tokens non-empty), so the except
\* branch is never taken.
summarize_text(txt, k) ==
  LET all == split_sentences(txt)
      sents == take(all, SentenceCap)
      words == non_stopwords(tokenize_words(join(<<" ">>, sents)))
      scored == score_sentences(sents, words, 1)
      top == take(sorted_by_score_desc(scored), k)
      by_idx == sorted_by_idx(top)
      top_sorted == [i \in DOMAIN by_idx |-> by_idx[i].s]
      cleaned == strip(clean_summary(join(<<" ">>, top_sorted)))
  IN  IF all = <<>>
      THEN [ret |-> <<>>, path |-> "empty", sentences |-> <<>>,
            sent_scores |-> <<>>, top |-> <<>>]
      ELSE IF words = <<>>
      THEN [ret |-> join(<<" ">>, take(sents, k)), path |-> "verbatim",
            sentences |-> sents, sent_scores |-> <<>>, top |-> <<>>]
      ELSE [ret |-> tidy(fallback_if_empty(cleaned, sents, k)),
            path |-> IF cleaned = <<>> THEN "fallback" ELSE "ranked",
            sentences |-> sents,
            sent_scores |-> [i \in DOMAIN scored |->
                               [idx |-> scored[i].idx, score |-> scored[i].score]],
            top |-> [i \in DOMAIN top |-> top[i].idx]]

(* ------------------------------ inputs -------------------------------- *)

FragDogs ==
  <<"D", "o", "g", "s", " ", "a", "r", "e", " ", "p", "o", "p", "u", "l", "a", "r", " ", "p",
     "e", "t", "s", " ", "t", "o", "o", ".", " ">>

FragSubscribe ==
  <<"S", "u", "b", "s", "c", "r", "i", "b", "e", " ", "t", "o", " ", "o", "u", "r", " ", "n",
     "e", "w", "s", "l", "e", "t", "t", "e", "r", " ", "f", "o", "r", " ", "m", "o", "r", "e",
     ".", " ">>

FragNumbers ==
  <<"1", " ", "2", " ", "3", " ", "4", " ", "5", ".", " ">>

FragSpaced ==
  <<"P", "e", "t", "s", " ", "a", "r", "e", " ", " ", "p", "o", "p", "u", "l", "a", "r", "\t",
     "d", "o", "g", "s", " ", "t", "o", "o", "!", "\n">>

FragOpen ==
  <<"P", "e", "t", " ", "c", "a", "r", "e", " ">>

FragStop ==
  <<"s", "o", " ", "i", "t", " ", "i", "s", " ", " ", "t", "h", "e", " ", "s", "a", "m", "e",
     "?", " ">>

FragSignUp ==
  <<"P", "l", "e", "a", "s", "e", " ", "S", "I", "G", "N", " ", "U", "P", " ", "f", "o", "r",
     " ", "p", "e", "t", " ", "n", "e", "w", "s", "!", " ">>

FragSubscribeNow ==
  <<"S", "u", "b", "s", "c", "r", "i", "b", "e", " ", "n", "o", "w", " ", "f", "o", "r", " ",
     "d", "a", "i", "l", "y", " ", "p", "e", "t", " ", "n", "e", "w", "s", "!", " ">>

\* The text of the concrete scenario, its sentences, and the marker of C2.
Scenario ==
  <<"C", "a", "t", "s", " ", "a", "r", "e", " ", "p", "o", "p", "u", "l", "a", "r", " ", "p",
     "e", "t", "s", ".", " ", "D", "o", "g", "s", " ", "a", "r", "e", " ", "p", "o", "p", "u",
     "l", "a", "r", " ", "p", "e", "t", "s", " ", "t", "o", "o", ".", " ", "C", "a", "t", "s",
     " ", "a", "n", "d", " ", "d", "o", "g", "s", " ", "n", "e", "e", "d", " ", "c", "a", "r",
     "e", ".", " ", "S", "u", "b", "s", "c", "r", "i", "b", "e", " ", "t", "o", " ", "o", "u",
     "r", " ", "n", "e", "w", "s", "l", "e", "t", "t", "e", "r", " ", "f", "o", "r", " ", "m",
     "o", "r", "e", ".", " ", "P", "e", "t", " ", "c", "a", "r", "e", " ", "r", "e", "q", "u",
     "i", "r", "e", "s", " ", "a", "t", "t", "e", "n", "t", "i", "o", "n", " ", "a", "n", "d",
     " ", "l", "o", "v", "e", ".">>

SubscribeMarker ==
  <<"S", "u", "b", "s", "c", "r", "i", "b", "e", " ", "t", "o", " ", "o", "u", "r", " ", "n",
     "e", "w", "s", "l", "e", "t", "t", "e", "r">>

ScenarioSecond ==
  <<"D", "o", "g", "s", " ", "a", "r", "e", " ", "p", "o", "p", "u", "l", "a", "r", " ", "p",
     "e", "t", "s", " ", "t", "o", "o", ".">>

ScenarioThird ==
  <<"C", "a", "t", "s", " ", "a", "n", "d", " ", "d", "o", "g", "s", " ", "n", "e", "e", "d",
     " ", "c", "a", "r", "e", ".">>

ScenarioFirst ==
  <<"C", "a", "t", "s", " ", "a", "r", "e", " ", "p", "o", "p", "u", "l", "a", "r", " ", "p",
     "e", "t", "s", ".">>

ScenarioFifth ==
  <<"P", "e", "t", " ", "c", "a", "r", "e", " ", "r", "e", "q", "u", "i", "r", "e", "s", " ",
     "a", "t", "t", "e", "n", "t", "i", "o", "n", " ", "a", "n", "d", " ", "l", "o", "v", "e",
     ".">>

Fragments ==
  {FragDogs, FragSubscribe, FragNumbers, FragSpaced, FragOpen, FragStop, FragSignUp}

RECURSIVE concat(_)
concat(seqs) == IF seqs = <<>> THEN <<>> ELSE Head(seqs) \o concat(Tail(seqs))

\* Every concatenation of at most MaxFrags fragments.
FragmentTexts ==
  {concat(fs) : fs \in UNION {[1..n -> Fragments] : n \in 0..MaxFrags}}

\* Six sentences of at least five words, each containing "Subscribe".
SixSubscribe ==
  concat(<<FragSubscribe, FragSubscribeNow, FragSubscribe,
           FragSubscribeNow, FragSubscribe, FragSubscribeNow>>)

NoLocals ==
  [ret |-> <<>>, path |-> "none", sentences |-> <<>>, sent_scores |-> <<>>, top |-> <<>>]

(* ------------------------------ state --------------------------------- *)

Threads == 1..NumThreads

VARIABLES
  text,           \* the text argument of the summarize_text call
  max_sentences,  \* its max_sentences argument
  pc,             \* "call" before summarize_text runs, "returned" after
  summary,        \* the string summarize_text returned
  locals,         \* the locals of the call at its return
  usage,          \* the dict bound to the global usage
  usage_id,       \* the identity of that dict (a reset binds a new one)
  day_over,       \* datetime.now() >= reset_time
  days,           \* days elapsed so far
  tpc,            \* per thread: where its /answer request stands
  held,           \* per thread: the dict its += statement loaded
  tmp             \* per thread: the count its += statement read

sum_vars == <<text, max_sentences, pc, summary, locals>>

quota_vars == <<usage, usage_id, day_over, days, tpc, held, tmp>>

vars == <<sum_vars, quota_vars>>

\* Module level: usage = {"google": 0, "serp": 0}, reset_time a day ahead.
QuotaInit ==
  /\ usage = [google |-> 0, serp |-> 0]
  /\ usage_id = 0
  /\ day_over = FALSE
  /\ days = 0
  /\ tpc = [t \in Threads |-> "idle"]
  /\ held = [t \in Threads |-> 0]
  /\ tmp = [t \in Threads |-> 0]

(* ------------------------------ summarizer ---------------------------- *)

Init ==
  /\ \/ text \in FragmentTexts /\ max_sentences \in 1..MaxK
     \/ /\ text \in {Scenario, SixSubscribe}
        /\ max_sentences \in (1..MaxK) \cup {DefaultMaxSentences}
  /\ pc = "call"
  /\ summary = <<>>
  /\ locals = NoLocals
  /\ QuotaInit

\* One call of summarize_text, as get_answer makes it.
Summarize ==
  /\ pc = "call"
  /\ LET r == summarize_text(text, max_sentences)
     IN  /\ summary' = r.ret
         /\ locals' = r
  /\ pc' = "returned"
  /\ UNCHANGED <<text, max_sentences>>
  /\ UNCHANGED quota_vars

Next == Summarize

Spec == Init /\ [][Next]_vars

(* ------------------------------ search quota -------------------------- *)

goto(t, label) == tpc' = [tpc EXCEPT ![t] = label]

\* A day goes by: datetime.now() reaches reset_time.
DayPasses ==
  /\ days < MaxDays
  /\ ~day_over
  /\ day_over' = TRUE
  /\ days' = days + 1
  /\ UNCHANGED sum_vars
  /\ UNCHANGED <<usage, usage_id, tpc, held, tmp>>

\* get_answer receives a non-empty question and calls search_web, which
\* calls reset_usage_if_needed.
StartAnswer(t) ==
  /\ tpc[t] = "idle"
  /\ goto(t, "reset_check")
  /\ UNCHANGED sum_vars
  /\ UNCHANGED <<usage, usage_id, day_over, days, held, tmp>>

\* reset_usage_if_needed: if datetime.now() >= reset_time
ResetCheck(t) ==
  /\ tpc[t] = "reset_check"
  /\ goto(t, IF day_over THEN "reset_usage" ELSE "google_check")
  /\ UNCHANGED sum_vars
  /\ UNCHANGED <<usage, usage_id, day_over, days, held, tmp>>

\* reset_usage_if_needed: usage = {"google": 0, "serp": 0}
ResetUsage(t) ==
  /\ tpc[t] = "reset_usage"
  /\ usage' = [google |-> 0, serp |-> 0]
  /\ usage_id' = usage_id + 1
  /\ goto(t, "reset_time")
  /\ UNCHANGED sum_vars
  /\ UNCHANGED <<day_over, days, held, tmp>>

\* reset_usage_if_needed: reset_time = datetime.now() + timedelta(days=1)
ResetTime(t) ==
  /\ tpc[t] = "reset_time"
  /\ day_over' = FALSE
  /\ goto(t, "google_check")
  /\ UNCHANGED sum_vars
  /\ UNCHANGED <<usage, usage_id, days, held, tmp>>

\* search_web: if usage["google"] < GOOGLE_LIMIT
GoogleCheck(t) ==
  /\ tpc[t] = "google_check"
  /\ goto(t, IF usage.google < GOOGLE_LIMIT THEN "google_http" ELSE "serp_check")
  /\ UNCHANGED sum_vars
  /\ UNCHANGED <<usage, usage_id, day_over, days, held, tmp>>

\* search_web: the request to Google; it yields urls, or none (no items, or
\* an exception, which is swallowed).
GoogleHttp(t) ==
  /\ tpc[t] = "google_http"
  /\ \E urls \in BOOLEAN : goto(t, IF urls THEN "google_read" ELSE "serp_check")
  /\ UNCHANGED sum_vars
  /\ UNCHANGED <<usage, usage_id, day_over, days, held, tmp>>

\* usage["google"] += 1, its load of the dict and of the count
GoogleRead(t) ==
  /\ tpc[t] = "google_read"
  /\ held' = [held EXCEPT ![t] = usage_id]
  /\ tmp' = [tmp EXCEPT ![t] = usage.google]
  /\ goto(t, "google_write")
  /\ UNCHANGED sum_vars
  /\ UNCHANGED <<usage, usage_id, day_over, days>>

\* usage["google"] += 1, its store into the dict it loaded; then search_web
\* returns the urls and the rest of get_answer leaves the quota alone.
GoogleWrite(t) ==
  /\ tpc[t] = "google_write"
  /\ usage' = IF held[t] = usage_id
              THEN [usage EXCEPT !.google = tmp[t] + 1] ELSE usage
  /\ held' = [held EXCEPT ![t] = 0]
  /\ tmp' = [tmp EXCEPT ![t] = 0]
  /\ goto(t, "idle")
  /\ UNCHANGED sum_vars
  /\ UNCHANGED <<usage_id, day_over, days>>

\* search_web: if usage["serp"] < SERP_LIMIT; otherwise the static urls
SerpCheck(t) ==
  /\ tpc[t] = "serp_check"
  /\ goto(t, IF usage.serp < SERP_LIMIT THEN "serp_http" ELSE "idle")
  /\ UNCHANGED sum_vars
  /\ UNCHANGED <<usage, usage_id, day_over, days, held, tmp>>

\* search_web: the request to SerpAPI; without urls the static ones are
\* returned.
SerpHttp(t) ==
  /\ tpc[t] = "serp_http"
  /\ \E urls \in BOOLEAN : goto(t, IF urls THEN "serp_read" ELSE "idle")
  /\ UNCHANGED sum_vars
  /\ UNCHANGED <<usage, usage_id, day_over, days, held, tmp>>

\* usage["serp"] += 1, its load of the dict and of the count
SerpRead(t) ==
  /\ tpc[t] = "serp_read"
  /\ held' = [held EXCEPT ![t] = usage_id]
  /\ tmp' = [tmp EXCEPT ![t] = usage.serp]
  /\ goto(t, "serp_write")
  /\ UNCHANGED sum_vars
  /\ UNCHANGED <<usage, usage_id, day_over, days>>

\* usage["serp"] += 1, its store into the dict it loaded
SerpWrite(t) ==
  /\ tpc[t] = "serp_write"
  /\ usage' = IF held[t] = usage_id
              THEN [usage EXCEPT !.serp = tmp[t] + 1] ELSE usage
  /\ held' = [held EXCEPT ![t] = 0]
  /\ tmp' = [tmp EXCEPT ![t] = 0]
  /\ goto(t, "idle")
  /\ UNCHANGED sum_vars
  /\ UNCHANGED <<usage_id, day_over, days>>

search_web(t) ==
  \/ ResetCheck(t) \/ ResetUsage(t) \/ ResetTime(t)
  \/ GoogleCheck(t) \/ GoogleHttp(t) \/ GoogleRead(t) \/ GoogleWrite(t)
  \/ SerpCheck(t) \/ SerpHttp(t) \/ SerpRead(t) \/ SerpWrite(t)

QuotaNext ==
  \/ DayPasses
  \/ \E t \in Threads : StartAnswer(t)
  \/ \E t \in Threads : search_web(t)

\* No summarize_text call is in progress; the module has just been loaded.
InitQuota ==
  /\ text = <<>>
  /\ max_sentences = DefaultMaxSentences
  /\ pc = "call"
  /\ summary = <<>>
  /\ locals = NoLocals
  /\ QuotaInit

QuotaSpec == InitQuota /\ [][QuotaNext]_vars

(* ------------------------------ claims -------------------------------- *)

Returned == pc = "returned"

\* The qualifying sentences of the input, in segmentation order.
Sentences == split_sentences(text)

\* The sentences of the output.
Outs == split_sentences(summary)

\* The sentence of the call's locals that entry i of top selected.
Selected(i) == locals.sentences[locals.top[i] + 1]

\* The filter removes every sentence the ranker selected.
AllSelectedFiltered ==
  /\ locals.top # <<>>
  /\ \A i \in DOMAIN locals.top : is_boilerplate(Selected(i))

\* Every whitespace run of s is one space character.
single_spaced(s) ==
  \A i \in DOMAIN s :
     s[i] \in Whitespace => s[i] = " " /\ (i = 1 \/ s[i - 1] \notin Whitespace)

\* a[i..] is a subsequence of b[j..].
RECURSIVE is_subseq(_, _, _, _)
is_subseq(a, b, i, j) ==
  IF i > Len(a) THEN TRUE
  ELSE IF j > Len(b) THEN FALSE
  ELSE IF a[i] = b[j] THEN is_subseq(a, b, i + 1, j + 1)
  ELSE is_subseq(a, b, i, j + 1)

InTop(idx) == \E i \in DOMAIN locals.top : locals.top[i] = idx

\* C1: summarize_text returns the empty string when the text has no
\* qualifying sentence, and a non-empty string when it has at least one.
C1_EmptyIffNoQualifying ==
  Returned => ((summary = <<>>) <=> (Sentences = <<>>))

\* C1 witness: every selected sentence was filtered out and the result is
\* not empty.
C1_Witness ==
  Returned /\ AllSelectedFiltered /\ summary # <<>>

\* C2 as stated: when some qualifying sentence is not boilerplate, no
\* sentence containing "Subscribe to our newsletter" is in the output.
C2_Original ==
  (Returned /\ \E i \in DOMAIN Sentences : ~is_boilerplate(Sentences[i]))
    => ~contains(summary, SubscribeMarker)

\* C2 amended: when at least one of the sentences the ranker selected is not
\* boilerplate, no sentence containing "Subscribe to our newsletter" is in
\* the output.
C2_Amended ==
  (Returned /\ \E i \in DOMAIN locals.top : ~is_boilerplate(Selected(i)))
    => ~contains(summary, SubscribeMarker)

\* C2 witness: the ranker selected a "Subscribe to our newsletter" sentence
\* together with a sentence that is not boilerplate.
C2_Witness ==
  /\ Returned
  /\ \E i \in DOMAIN locals.top : ~is_boilerplate(Selected(i))
  /\ \E i \in DOMAIN locals.top : contains(Selected(i), SubscribeMarker)

\* C3 as stated: the output is a join of whole sentences, each of them
\* character for character a sentence of split_sentences(text).
C3_Original ==
  Returned =>
    /\ summary = join(<<" ">>, Outs)
    /\ \A i \in DOMAIN Outs : Outs[i] \in Range(Sentences)

\* C3 amended: the output is a join of whole sentences, each of them a
\* sentence of split_sentences(text): character for character when the text
\* is single-spaced or the stopword-only return is taken, and otherwise with
\* every whitespace run inside it replaced by one space.
C3_Amended ==
  Returned =>
    /\ summary = join(<<" ">>, Outs)
    /\ \A i \in DOMAIN Outs :
         IF single_spaced(text) \/ locals.path = "verbatim"
         THEN Outs[i] \in Range(Sentences)
         ELSE Outs[i] \in {tidy(Sentences[j]) : j \in DOMAIN Sentences}

\* C3 witness: a ranked summary of two sentences or more, one of which had
\* a whitespace run collapsed.
C3_Witness ==
  /\ Returned
  /\ locals.path = "ranked"
  /\ Len(Outs) >= 2
  /\ \E i \in DOMAIN Outs : Outs[i] \notin Range(Sentences)

\* C4: the sentences of the output are in the order they have in the text:
\* they are a subsequence of the sentences of the text (sentences compared
\* after the final whitespace pass).
C4_OrderPreserved ==
  Returned =>
    is_subseq([i \in DOMAIN Outs |-> tidy(Outs[i])],
              [j \in DOMAIN Sentences |-> tidy(Sentences[j])], 1, 1)

\* C4 witness: two selected sentences, both kept by the filter, the one
\* with the higher score being the later one in the text.
C4_Witness ==
  /\ Returned
  /\ \E i, j \in DOMAIN locals.top :
        /\ i < j
        /\ locals.top[i] > locals.top[j]
        /\ ~is_boilerplate(Selected(i))
        /\ ~is_boilerplate(Selected(j))

C6_AtMostMaxSentences ==
  Returned =>
    /\ Len(Outs) <= max_sentences
    /\ Len(Outs) <= Len(Sentences)
    /\ Len(summary) = Len(join(<<" ">>, Outs))

\* C6 witness: more scored sentences than max_sentences, and a ranked
\* summary of exactly max_sentences sentences.
C6_Witness ==
  /\ Returned
  /\ locals.path = "ranked"
  /\ Len(locals.sent_scores) > max_sentences
  /\ Len(Outs) = max_sentences

\* C7 as stated: the scenario text with max_sentences = 2 yields two of its
\* first three sentences, in order, without the "Subscribe" sentence.
C7_Original ==
  (Returned /\ text = Scenario /\ max_sentences = 2) =>
    /\ summary \in {join(<<" ">>, <<ScenarioFirst, ScenarioSecond>>),
                    join(<<" ">>, <<ScenarioFirst, ScenarioThird>>),
                    join(<<" ">>, <<ScenarioSecond, ScenarioThird>>)}
    /\ ~contains(summary, SubscribeMarker)

\* C7 amended: the scenario text with max_sentences = 2 yields its third
\* and fifth sentences, in order, without the "Subscribe" sentence.
C7_Amended ==
  (Returned /\ text = Scenario /\ max_sentences = 2) =>
    /\ summary = join(<<" ">>, <<ScenarioThird, ScenarioFifth>>)
    /\ ~contains(summary, SubscribeMarker)

\* C7 witness: the scenario was summarized with max_sentences = 2; its
\* four-word first sentence is not among the four qualifying sentences.
C7_Witness ==
  /\ Returned
  /\ text = Scenario
  /\ max_sentences = 2
  /\ Len(locals.sentences) = 4
  /\ ScenarioFirst \notin Range(locals.sentences)

\* C8: of two scored sentences with equal scores, the later one is selected
\* only if the earlier one is.
C8_TieBreak ==
  Returned =>
    \A i, j \in DOMAIN locals.sent_scores :
       LET a == locals.sent_scores[i]
           b == locals.sent_scores[j]
       IN  (i < j /\ ScoreCmp(a.score, b.score) = 0 /\ InTop(b.idx)) => InTop(a.idx)

\* C8 witness: two different sentences with equal scores, the earlier one
\* selected and the later one not.
C8_Witness ==
  /\ Returned
  /\ \E i, j \in DOMAIN locals.sent_scores :
       LET a == locals.sent_scores[i]
           b == locals.sent_scores[j]
       IN  /\ i < j
           /\ ScoreCmp(a.score, b.score) = 0
           /\ InTop(a.idx)
           /\ ~InTop(b.idx)
           /\ locals.sentences[a.idx + 1] # locals.sentences[b.idx + 1]

\* C9 as stated: no sentence without tokens is in the output.
C9_Original ==
  Returned => \A i \in DOMAIN Outs : tokenize_words(Outs[i]) # <<>>

\* C9 amended: no sentence without tokens is selected by the ranker, and
\* none is in the output unless a fallback returned the leading sentences.
C9_Amended ==
  Returned =>
    /\ \A i \in DOMAIN locals.top : tokenize_words(Selected(i)) # <<>>
    /\ locals.path = "ranked" =>
         \A i \in DOMAIN Outs : tokenize_words(Outs[i]) # <<>>

\* C9 witness: a ranked summary of a text that has a sentence without
\* tokens and fewer sentences with tokens than max_sentences.
C9_Witness ==
  /\ Returned
  /\ locals.path = "ranked"
  /\ Len(locals.sent_scores) < max_sentences
  /\ \E i \in DOMAIN locals.sentences : tokenize_words(locals.sentences[i]) = <<>>

\* C10: usage["google"] never exceeds GOOGLE_LIMIT and usage["serp"] never
\* exceeds SERP_LIMIT, in any state concurrent /answer requests can reach.
C10_QuotaBound ==
  /\ usage.google <= GOOGLE_LIMIT
  /\ usage.serp <= SERP_LIMIT

=============================================================================
